---- MODULE Spec2Model ----
(***************************************************************************)
(* A model of ConwayClassifier (ConwayClassifier.cpp / ConwayClassifier.h): *)
(* the header parser, the bounding-box pass (calcBoardSpecs), the flat      *)
(* board store (get1DIndex, getCellVal, setCellVal, initializeGameBoard),   *)
(* the run-length filler (fillBoard), classification() and printGameBoard.  *)
(*                                                                          *)
(* Text is modelled as sequences of one-character strings; a header line is *)
(* the sequence of its whitespace-separated tokens (what operator>> sees).  *)
(***************************************************************************)
EXTENDS Integers, Sequences, FiniteSets, TLC

VARIABLES
    files,      \* the generation files on disk, one per requested stream
    streams,    \* the std::ifstream objects: position and state bits
    pc,         \* where the constructor (or the harness) stands
    exc,        \* the exception that ended construction, or "none"
    minX, maxX, minY, maxY,   \* calcBoardSpecs' accumulators
    x, y, width, height,      \* the envelope (instance variables)
    gameBoard,  \* the flat board, a sequence of booleans (index 0 at [1])
    boardSize,  \* size of gameBoard
    classNum,   \* classification number
    genNum,     \* loop index of calcBoardSpecs / fillBoard (0-based)
    currentX, currentY, posInfo,   \* fillBoard's cursor and start position
    hdrSeen,    \* what calcBoardSpecs read from each stream
    fillSeen,   \* what fillBoard read from each stream's header
    call,       \* the last call made on the object and its outcome
    out         \* the sink printGameBoard writes to

vars == <<files, streams, pc, exc, minX, maxX, minY, maxY, x, y, width, height,
          gameBoard, boardSize, classNum, genNum, currentX, currentY, posInfo,
          hdrSeen, fillSeen, call, out>>

(***************************************************************************)
(* Bounds of the model.                                                     *)
(***************************************************************************)
GenNum == 1        \* requested generation count: streams 0..GenNum
MaxDim == 2        \* frame widths and heights are 1..MaxDim
MaxBody == 4       \* longest run-length body drawn for the decoder
MaxTok == 3        \* free characters of a header token in the parser harness
FillWidth == 12    \* frame width of the files whose body varies
FillHeight == 2    \* frame height of the files whose body varies

(***************************************************************************)
(* Program constants.                                                       *)
(***************************************************************************)
posQualifierLen == 4
Unclassified == 5

(***************************************************************************)
(* std::string helpers.                                                     *)
(***************************************************************************)
Digits == <<"0", "1", "2", "3", "4", "5", "6", "7", "8", "9">>

isdigit(c) == \E k \in 1..10 : Digits[k] = c

DigitVal(c) == (CHOOSE k \in 1..10 : Digits[k] = c) - 1

Min(a, b) == IF a < b THEN a ELSE b

npos == -1

\* str.find(","): 0-based index of the first comma, npos when there is none
find(str, delimiter) ==
    IF \E k \in 1..Len(str) : str[k] = delimiter
    THEN (CHOOSE k \in 1..Len(str) :
              str[k] = delimiter /\ \A j \in 1..(k - 1) : str[j] # delimiter) - 1
    ELSE npos

\* str.substr(pos, len) for pos <= size(); the caller models the throw
substr(str, pos, len) == SubSeq(str, pos + 1, Min(pos + len, Len(str)))

\* number of leading digits of str from (1-based) position k on
RECURSIVE DigitRun(_, _)
DigitRun(str, k) ==
    IF k <= Len(str) /\ isdigit(str[k]) THEN 1 + DigitRun(str, k + 1) ELSE 0

RECURSIVE DigitsValue(_)
DigitsValue(ds) ==
    IF ds = <<>> THEN 0
    ELSE 10 * DigitsValue(SubSeq(ds, 1, Len(ds) - 1)) + DigitVal(ds[Len(ds)])

\* std::stoi: optional sign, then the longest run of digits; whatever follows
\* the digits is ignored; no digit at all throws std::invalid_argument
stoi(str) ==
    LET signed == Len(str) >= 1 /\ str[1] \in {"-", "+"}
        from   == IF signed THEN 2 ELSE 1
        n      == DigitRun(str, from)
        mag    == DigitsValue(SubSeq(str, from, from + n - 1))
    IN  IF n = 0 THEN [ok |-> FALSE, err |-> "invalid_argument"]
        ELSE [ok |-> TRUE,
              val |-> IF signed /\ str[1] = "-" THEN 0 - mag ELSE mag]

\* std::to_string of an int (how the simulator wrote the headers)
RECURSIVE NatStr(_)
NatStr(n) == IF n < 10 THEN <<Digits[n + 1]>>
             ELSE NatStr(n \div 10) \o <<Digits[(n % 10) + 1]>>

IntStr(n) == IF n < 0 THEN <<"-">> \o NatStr(0 - n) ELSE NatStr(n)

(***************************************************************************)
(* Header parser: split, readPos, readWidthHeight.                          *)
(***************************************************************************)
split(str, delimiter, firstStr) ==
    LET index == find(str, delimiter)
    IN  IF index # npos
        THEN IF firstStr /\ index # 0
             THEN substr(str, 0, index)
             ELSE IF index # Len(str) - 1
                  THEN substr(str, index + 1, Len(str) - index - 1)
                  ELSE <<>>
        ELSE <<>>

\* `s >> t` repeated n times into the same std::string: once the tokens run
\* out the extraction fails and leaves the string as it was
ExtractNth(tokens, n, before) ==
    IF Len(tokens) = 0 THEN before ELSE tokens[Min(n, Len(tokens))]

readPos(firstLine) ==
    LET posStr == ExtractNth(firstLine, 2, <<>>)
    IN  IF posQualifierLen > Len(posStr)
        THEN [ok |-> FALSE, err |-> "out_of_range"]       \* substr throws
        ELSE LET rest == substr(posStr, posQualifierLen,
                                Len(posStr) - posQualifierLen)
                 a == stoi(split(rest, ",", TRUE))
                 b == stoi(split(rest, ",", FALSE))
             IN  IF a.ok /\ b.ok
                 THEN [ok |-> TRUE, first |-> a.val, second |-> b.val]
                 ELSE [ok |-> FALSE, err |-> "invalid_argument"]

readWidthHeight(secLine) ==
    LET xInfo == ExtractNth(secLine, 3, <<>>)
        yInfo == IF Len(secLine) >= 4 THEN ExtractNth(secLine, 6, <<>>)
                 ELSE <<>>
        a == stoi(split(xInfo, ",", TRUE))
        b == stoi(split(yInfo, ",", TRUE))
    IN  IF a.ok /\ b.ok
        THEN [ok |-> TRUE, first |-> a.val, second |-> b.val]
        ELSE [ok |-> FALSE, err |-> "invalid_argument"]

(***************************************************************************)
(* Generation files and std::ifstream.  A stream position counts units:     *)
(* each header line is one unit, each body character one unit.              *)
(***************************************************************************)
HeaderLine1(px, py) ==
    << <<"#">>, <<"P", "o", "s", "=">> \o IntStr(px) \o <<",">> \o IntStr(py) >>

HeaderLine2(w, h) ==
    << <<"x">>, <<"=">>, IntStr(w) \o <<",">>,
       <<"y">>, <<"=">>, IntStr(h) \o <<",">>, <<"r">>, <<"=">>, <<"B">> >>

\* a file the simulator wrote in full: two header lines and the body
FullFile(px, py, w, h, body) ==
    [exists |-> TRUE, lines |-> <<HeaderLine1(px, py), HeaderLine2(w, h)>>,
     term |-> TRUE, body |-> body, px |-> px, py |-> py, w |-> w, h |-> h]

\* the same headers, the file ending right after line 2 without a newline
NoNewlineFile(px, py, w, h) ==
    [FullFile(px, py, w, h, <<>>) EXCEPT !.term = FALSE]

\* a file cut after its first line
ShortFile(px, py) ==
    [exists |-> TRUE, lines |-> <<HeaderLine1(px, py)>>, term |-> TRUE,
     body |-> <<>>, px |-> px, py |-> py, w |-> 0, h |-> 0]

\* no such file: the ifstream fails to open
MissingFile ==
    [exists |-> FALSE, lines |-> <<>>, term |-> TRUE, body |-> <<>>,
     px |-> 0, py |-> 0, w |-> 0, h |-> 0]

OpenStream(f) == [pos |-> 0, eof |-> FALSE, fail |-> ~f.exists, open |-> f.exists]

good(s) == ~s.eof /\ ~s.fail

FileLen(f) == Len(f.lines) + Len(f.body)

\* std::getline(*is, line) into a fresh std::string
getline(s, f) ==
    IF ~good(s) THEN [s |-> [s EXCEPT !.fail = TRUE], line |-> <<>>]
    ELSE IF s.pos < Len(f.lines)
    THEN [s |-> [s EXCEPT !.pos = s.pos + 1,
                          !.eof = (s.pos + 1 = Len(f.lines) /\ ~f.term)],
          line |-> f.lines[s.pos + 1]]
    ELSE LET rest == SubSeq(f.body, s.pos - Len(f.lines) + 1, Len(f.body))
         IN  [s |-> [s EXCEPT !.pos = FileLen(f), !.eof = TRUE,
                              !.fail = (rest = <<>>)],
              line |-> IF rest = <<>> THEN <<>> ELSE <<rest>>]

\* is->get(c): c is left as it was when the read fails
get(s, f, c) ==
    IF good(s) /\ s.pos >= Len(f.lines) /\ s.pos < FileLen(f)
    THEN [s |-> [s EXCEPT !.pos = s.pos + 1], ok |-> TRUE,
          c |-> f.body[s.pos - Len(f.lines) + 1]]
    ELSE [s |-> [s EXCEPT !.fail = TRUE, !.eof = (s.eof \/ good(s))],
          ok |-> FALSE, c |-> c]

\* a seekg that repositions but leaves eofbit set (the pre-C++11 rule)
seekgKeepsEof(s) == IF s.fail THEN s ELSE [s EXCEPT !.pos = 0]

\* is->seekg(0, std::ios::beg): clears eofbit first (C++11), then seeks
\* unless the stream has failed
seekg(s) ==
    LET c == [s EXCEPT !.eof = FALSE]
    IN  IF c.fail THEN c ELSE [c EXCEPT !.pos = 0]

close(s) == [s EXCEPT !.open = FALSE]

NumStreams == Len(files)

(***************************************************************************)
(* Board store.                                                             *)
(***************************************************************************)
get1DIndexRowsByHeight(gen, xCoord, yCoord) ==
    (gen * width * height) + ((yCoord - y) * height) + (xCoord - x)

get1DIndex(gen, xCoord, yCoord) ==
    LET newX == xCoord - x
        newY == yCoord - y
    IN  (gen * width * height) + (newY * width) + newX

\* whether offset idx lies inside the malloc'ed buffer
InBuffer(idx) == idx >= 0 /\ idx < boardSize

\* gameBoard[idx] = val, for an offset inside the buffer
StoreAt(board, idx, val) == [board EXCEPT ![idx + 1] = val]

setCellVal(board, gen, xCoord, yCoord, val) ==
    StoreAt(board, get1DIndex(gen, xCoord, yCoord), val)

getCellVal(gen, xCoord, yCoord) == gameBoard[get1DIndex(gen, xCoord, yCoord) + 1]

\* what initializeGameBoard(genNum) computes
initBoardSize(n) == (n + 1) * width * height

(***************************************************************************)
(* Construction: populateIStreamVec has opened one stream per generation    *)
(* 0..genNum and classNum is 5; calcBoardSpecs is about to run.             *)
(***************************************************************************)
Constructed(fs) ==
    /\ files = fs
    /\ streams = [g \in 1..Len(fs) |-> OpenStream(fs[g])]
    /\ pc = "calc"
    /\ exc = "none"
    /\ minX = "uninit" /\ maxX = "uninit" /\ minY = "uninit" /\ maxY = "uninit"
    /\ x = "uninit" /\ y = "uninit" /\ width = "uninit" /\ height = "uninit"
    /\ gameBoard = <<>>
    /\ boardSize = "uninit"
    /\ classNum = Unclassified
    /\ genNum = 0
    /\ currentX = "uninit" /\ currentY = "uninit" /\ posInfo = "uninit"
    /\ hdrSeen = <<>>
    /\ fillSeen = <<>>
    /\ call = [op |-> "none"]
    /\ out = <<>>

\* an exception leaves the constructor
Throw(e, strs) ==
    /\ pc' = "aborted"
    /\ exc' = e
    /\ streams' = strs
    /\ UNCHANGED <<files, minX, maxX, minY, maxY, x, y, width, height,
                   gameBoard, boardSize, classNum, genNum, currentX, currentY,
                   posInfo, hdrSeen, fillSeen, call, out>>

\* an accumulator that moves maxY the wrong way
accumulateMaxYDown(firstFile, acc, temp) ==
    IF firstFile THEN temp
    ELSE [minX |-> IF temp.minX < acc.minX THEN temp.minX ELSE acc.minX,
          minY |-> IF temp.minY < acc.minY THEN temp.minY ELSE acc.minY,
          maxX |-> IF temp.maxX > acc.maxX THEN temp.maxX ELSE acc.maxX,
          maxY |-> IF temp.maxY < acc.maxY THEN temp.maxY ELSE acc.maxY]

\* the running min/max: the first file seeds it, the others widen it
accumulate(firstFile, acc, temp) ==
    IF firstFile THEN temp
    ELSE [minX |-> IF temp.minX < acc.minX THEN temp.minX ELSE acc.minX,
          minY |-> IF temp.minY < acc.minY THEN temp.minY ELSE acc.minY,
          maxX |-> IF temp.maxX > acc.maxX THEN temp.maxX ELSE acc.maxX,
          maxY |-> IF temp.maxY > acc.maxY THEN temp.maxY ELSE acc.maxY]

\* calcBoardSpecs: one iteration of its loop, for stream genNum; the last
\* iteration also stores the envelope
CalcBoardSpecs ==
    /\ pc = "calc"
    /\ LET g  == genNum + 1
           f  == files[g]
           r1 == getline(streams[g], f)
           r2 == getline(r1.s, f)
           minInfo == readPos(r1.line)
           maxPr   == readWidthHeight(r2.line)
           firstFile == (genNum = 0)
       IN  IF ~minInfo.ok THEN Throw(minInfo.err, [streams EXCEPT ![g] = r2.s])
           ELSE IF ~maxPr.ok THEN Throw(maxPr.err, [streams EXCEPT ![g] = r2.s])
           ELSE LET tempMinX == minInfo.first
                    tempMinY == minInfo.second
                    tempMaxX == tempMinX + maxPr.first
                    tempMaxY == tempMinY + maxPr.second
                    acc == accumulate(firstFile,
                               [minX |-> minX, minY |-> minY,
                                maxX |-> maxX, maxY |-> maxY],
                               [minX |-> tempMinX, minY |-> tempMinY,
                                maxX |-> tempMaxX, maxY |-> tempMaxY])
                    nMinX == acc.minX
                    nMinY == acc.minY
                    nMaxX == acc.maxX
                    nMaxY == acc.maxY
                    last  == (g = NumStreams)
                IN  /\ minX' = nMinX /\ minY' = nMinY
                    /\ maxX' = nMaxX /\ maxY' = nMaxY
                    /\ streams' = [streams EXCEPT ![g] = seekg(r2.s)]
                    /\ hdrSeen' = Append(hdrSeen,
                                         [first |-> r1.line, sec |-> r2.line,
                                          pos |-> <<tempMinX, tempMinY>>])
                    /\ genNum' = IF last THEN 0 ELSE genNum + 1
                    /\ pc' = IF last THEN "alloc" ELSE "calc"
                    /\ x' = IF last THEN nMinX ELSE x
                    /\ y' = IF last THEN nMinY ELSE y
                    /\ width' = IF last THEN nMaxX - nMinX ELSE width
                    /\ height' = IF last THEN nMaxY - nMinY ELSE height
                    /\ UNCHANGED <<files, exc, gameBoard, boardSize, classNum,
                                   currentX, currentY, posInfo, fillSeen, call,
                                   out>>

\* initializeGameBoard(genNum)
InitializeGameBoard ==
    /\ pc = "alloc"
    /\ boardSize' = initBoardSize(NumStreams - 1)
    /\ gameBoard' = [k \in 1..initBoardSize(NumStreams - 1) |-> FALSE]
    /\ pc' = "fillhdr"
    /\ genNum' = 0
    /\ UNCHANGED <<files, streams, exc, minX, maxX, minY, maxY, x, y, width,
                   height, classNum, currentX, currentY, posInfo, hdrSeen,
                   fillSeen, call, out>>

(***************************************************************************)
(* fillBoard.                                                               *)
(***************************************************************************)
\* the header of stream genNum is read again and gives the cursor's start
FillHeader ==
    /\ pc = "fillhdr"
    /\ LET g  == genNum + 1
           f  == files[g]
           r1 == getline(streams[g], f)
           r2 == getline(r1.s, f)
           pos == readPos(r1.line)
       IN  IF ~pos.ok THEN Throw(pos.err, [streams EXCEPT ![g] = r2.s])
           ELSE /\ streams' = [streams EXCEPT ![g] = r2.s]
                /\ posInfo' = [first |-> pos.first, second |-> pos.second]
                /\ currentX' = pos.first
                /\ currentY' = pos.second
                /\ fillSeen' = Append(fillSeen,
                                      [first |-> r1.line, sec |-> r2.line,
                                       pos |-> <<pos.first, pos.second>>])
                /\ pc' = "fillbody"
                /\ UNCHANGED <<files, exc, minX, maxX, minY, maxY, x, y, width,
                               height, gameBoard, boardSize, classNum, genNum,
                               hdrSeen, call, out>>

\* one pass of `for (i < repCount)` with tag c
RunStep(st, c) ==
    IF c = "o"
    THEN LET idx == get1DIndex(genNum, st.cx, st.cy)
         IN  [board |-> IF InBuffer(idx)
                        THEN setCellVal(st.board, genNum, st.cx, st.cy, TRUE)
                        ELSE st.board,
              cx |-> st.cx + 1, cy |-> st.cy,
              cells |-> Append(st.cells, [x |-> st.cx, y |-> st.cy, idx |-> idx]),
              oob |-> st.oob \/ ~InBuffer(idx)]
    ELSE IF c = "b" THEN [st EXCEPT !.cx = st.cx + 1]
    ELSE IF c = "$" THEN [st EXCEPT !.cx = posInfo.first, !.cy = st.cy + 1]
    ELSE st

\* the for loop; with stopAtOob it ends at the first store outside the buffer
RECURSIVE RunLoop(_, _, _, _, _)
RunLoop(st, c, i, repCount, stopAtOob) ==
    IF i >= repCount \/ (stopAtOob /\ st.oob) THEN st
    ELSE RunLoop(RunStep(st, c), c, i + 1, repCount, stopAtOob)

\* the digit branch of the read loop: one digit is the whole count
RepCount(c) == IF isdigit(c) THEN DigitVal(c) ELSE 1

\* one iteration of `while (is->get(c))` for stream genNum; when the read
\* fails the stream is closed and the next generation begins
FillChar ==
    /\ pc = "fillbody"
    /\ LET g == genNum + 1
           f == files[g]
           r == get(streams[g], f, "?")
       IN  IF ~r.ok
           THEN /\ streams' = [streams EXCEPT ![g] = close(r.s)]
                /\ genNum' = genNum + 1
                /\ pc' = IF g = NumStreams THEN "ready" ELSE "fillhdr"
                /\ call' = [op |-> "close", gen |-> genNum]
                /\ UNCHANGED <<gameBoard, currentX, currentY, exc>>
           ELSE LET repCount == RepCount(r.c)
                    r2 == IF isdigit(r.c) THEN get(r.s, f, r.c) ELSE r
                    st0 == [board |-> gameBoard, cx |-> currentX,
                            cy |-> currentY, cells |-> <<>>, oob |-> FALSE]
                    whole == RunLoop(st0, r2.c, 0, repCount, FALSE)
                    cut   == RunLoop(st0, r2.c, 0, repCount, TRUE)
                IN  \* a store outside the buffer is undefined behaviour: the
                    \* process dies there, or runs on with memory it does not
                    \* own overwritten
                    \E outcome \in IF whole.oob THEN {"crash", "corrupt"}
                                   ELSE {"done"} :
                       LET st == IF outcome = "crash" THEN cut ELSE whole
                       IN  /\ streams' = [streams EXCEPT ![g] = r2.s]
                           /\ gameBoard' = st.board
                           /\ currentX' = st.cx
                           /\ currentY' = st.cy
                           /\ call' = [op |-> "run", gen |-> genNum,
                                       tag |-> r2.c, cells |-> st.cells,
                                       outcome |-> outcome]
                           /\ pc' = IF outcome = "crash" THEN "crashed" ELSE pc
                           /\ exc' = IF outcome = "crash" THEN "SIGSEGV" ELSE exc
                           /\ UNCHANGED genNum
    /\ UNCHANGED <<files, minX, maxX, minY, maxY, x, y, width, height,
                   boardSize, classNum, posInfo, hdrSeen, fillSeen, out>>

(***************************************************************************)
(* The query surface of a constructed object.                               *)
(***************************************************************************)
\* classification(): the class is still to be determined (classNum = 5)
Classification ==
    /\ pc = "ready"
    /\ call' = [op |-> "classification", result |-> classNum]
    /\ UNCHANGED <<files, streams, pc, exc, minX, maxX, minY, maxY, x, y, width,
                   height, gameBoard, boardSize, classNum, genNum, currentX,
                   currentY, posInfo, hdrSeen, fillSeen, out>>

\* the test that decides a row's end: i - index + 1 % width == 0
RowEnds(i, index) == (i - index) + (1 % width) = 0

RECURSIVE PrintLoop(_, _, _, _, _)
PrintLoop(i, index, genLen, onChar, offChar) ==
    IF i >= index + genLen THEN <<>>
    ELSE <<IF gameBoard[i + 1] THEN onChar ELSE offChar>>
         \o (IF RowEnds(i, index) THEN <<"\n">> ELSE <<>>)
         \o PrintLoop(i + 1, index, genLen, onChar, offChar)

\* what printGameBoard(gen, os, onChar, offChar) writes to os
printGameBoard(gen, onChar, offChar) ==
    LET index  == get1DIndex(gen, x, y)
        genLen == width * height
    IN  PrintLoop(index, index, genLen, onChar, offChar) \o <<"\n">>

PrintGameBoard ==
    /\ pc = "ready"
    /\ \E gen \in 0..(NumStreams - 1), chars \in {<<"1", "0">>, <<"#", ".">>} :
          /\ out' = printGameBoard(gen, chars[1], chars[2])
          /\ call' = [op |-> "printGameBoard", gen |-> gen, onChar |-> chars[1],
                      offChar |-> chars[2]]
    /\ UNCHANGED <<files, streams, pc, exc, minX, maxX, minY, maxY, x, y, width,
                   height, gameBoard, boardSize, classNum, genNum, currentX,
                   currentY, posInfo, hdrSeen, fillSeen>>

(***************************************************************************)
(* Inputs and specifications of the constructor and the queries.            *)
(***************************************************************************)
PosXs == {-1, 0}
PosYs == {0, 1}
Dims == {1, MaxDim}
Alphabet == {"o", "b", "$", "!", "1", "2"}
Bodies == UNION {[1..k -> Alphabet] : k \in 0..MaxBody}
            \cup {<<"3", "o", "2", "b", "$", "!">>}
OneCell == <<"o", "!">>

\* files whose headers vary: missing, cut short, ending without a newline,
\* or complete with a one-cell body
HdrFiles ==
    {MissingFile, ShortFile(0, 0)}
    \cup {NoNewlineFile(px, py, 1, 1) : <<px, py>> \in PosXs \X PosYs}
    \cup {FullFile(px, py, w, h, OneCell) :
              <<px, py, w, h>> \in PosXs \X PosYs \X Dims \X Dims}

\* files whose body varies, under a frame of FillWidth x FillHeight
FillFiles == {FullFile(-1, 0, FillWidth, FillHeight, body) : body \in Bodies}

Init == \E fs \in [1..(GenNum + 1) -> HdrFiles] : Constructed(fs)

InitFill ==
    \E v \in 1..(GenNum + 1), f \in FillFiles :
        Constructed([g \in 1..(GenNum + 1) |->
                        IF g = v THEN f
                        ELSE FullFile(0, 0, FillWidth, FillHeight, OneCell)])

\* the constructor: calcBoardSpecs, initializeGameBoard, fillBoard
Construct ==
    \/ CalcBoardSpecs
    \/ InitializeGameBoard
    \/ FillHeader
    \/ FillChar

Next ==
    \/ Construct
    \/ Classification
    \/ PrintGameBoard

Spec == Init /\ [][Next]_vars

SpecFill == InitFill /\ [][Construct]_vars

(***************************************************************************)
(* The board store on its own: the state initializeGameBoard leaves for an  *)
(* envelope, and setCellVal / getCellVal called with coordinates inside and *)
(* just outside it.                                                         *)
(***************************************************************************)
Allocated(px, py, w, h, cell) ==
    /\ files = [g \in 1..(GenNum + 1) |-> FullFile(px, py, w, h, OneCell)]
    /\ streams = [g \in 1..(GenNum + 1) |-> OpenStream(files[g])]
    /\ pc = "board"
    /\ exc = "none"
    /\ minX = px /\ maxX = px + w /\ minY = py /\ maxY = py + h
    /\ x = px /\ y = py /\ width = w /\ height = h
    /\ boardSize = (GenNum + 1) * w * h
    /\ gameBoard = [k \in 1..((GenNum + 1) * w * h) |-> cell]
    /\ classNum = Unclassified
    /\ genNum = 0
    /\ currentX = "uninit" /\ currentY = "uninit" /\ posInfo = "uninit"
    /\ hdrSeen = <<>>
    /\ fillSeen = <<>>
    /\ call = [op |-> "none"]
    /\ out = <<>>

\* a board of dead cells, or one every cell of which has been set alive
InitBoard == \E px \in PosXs, py \in PosYs, w \in Dims, h \in Dims, cell \in BOOLEAN :
                 Allocated(px, py, w, h, cell)

CallGens == -1..(GenNum + 1)
CallXs == (x - 1)..(x + width)
CallYs == (y - 1)..(y + height)

\* setCellVal(gen, xCoord, yCoord, val); an offset outside the buffer is
\* undefined behaviour: the process dies, or memory it does not own is hit
SetCellVal ==
    /\ pc = "board"
    /\ \E gen \in CallGens, xCoord \in CallXs, yCoord \in CallYs, val \in BOOLEAN :
         LET idx == get1DIndex(gen, xCoord, yCoord)
         IN  \E outcome \in IF InBuffer(idx) THEN {"done"} ELSE {"crash", "corrupt"} :
                /\ gameBoard' = IF InBuffer(idx)
                                THEN setCellVal(gameBoard, gen, xCoord, yCoord, val)
                                ELSE gameBoard
                /\ call' = [op |-> "setCellVal", gen |-> gen, x |-> xCoord,
                            y |-> yCoord, val |-> val, idx |-> idx,
                            outcome |-> outcome]
                /\ pc' = IF outcome = "crash" THEN "crashed" ELSE "set"
    /\ UNCHANGED <<files, streams, exc, minX, maxX, minY, maxY, x, y, width,
                   height, boardSize, classNum, genNum, currentX, currentY,
                   posInfo, hdrSeen, fillSeen, out>>

\* getCellVal(gen, xCoord, yCoord), on the board as allocated or after a
\* setCellVal; a read outside the buffer dies or returns whatever byte lies
\* there
GetCellVal ==
    /\ pc \in {"board", "set"}
    /\ \E gen \in CallGens, xCoord \in CallXs, yCoord \in CallYs :
         LET idx == get1DIndex(gen, xCoord, yCoord)
         IN  \E outcome \in IF InBuffer(idx) THEN {"done"} ELSE {"crash", "garbage"},
                result \in BOOLEAN :
                /\ InBuffer(idx) => result = getCellVal(gen, xCoord, yCoord)
                /\ outcome = "crash" => result = FALSE
                /\ call' = [op |-> "getCellVal", gen |-> gen, x |-> xCoord,
                            y |-> yCoord, idx |-> idx, result |-> result,
                            outcome |-> outcome]
                /\ pc' = IF outcome = "crash" THEN "crashed" ELSE "got"
    /\ UNCHANGED <<files, streams, exc, minX, maxX, minY, maxY, x, y, width,
                   height, gameBoard, boardSize, classNum, genNum, currentX,
                   currentY, posInfo, hdrSeen, fillSeen, out>>

NextBoard ==
    \/ SetCellVal
    \/ GetCellVal

SpecBoard == InitBoard /\ [][NextBoard]_vars

(***************************************************************************)
(* The header parser on its own: readPos and readWidthHeight applied to     *)
(* header lines, well-formed and not.                                       *)
(***************************************************************************)
TokChars == {"1", ",", "a", "-"}
Toks(n) == UNION {[1..k -> TokChars] : k \in 0..n}
Qualifiers == {<<"P", "o", "s", "=">>, <<"a", "b", "c", "d">>, <<"P", "o">>}

FirstLines ==
    {<<>>, << <<"#">> >>}
    \cup {<< <<"#">>, q \o r >> : q \in Qualifiers, r \in Toks(MaxTok)}

SecLines ==
    {<<>>, << <<"x">>, <<"=">> >>, << <<"x">>, <<"=">>, <<"1", ",">> >>}
    \cup {<< <<"x">>, <<"=">>, t1, <<"y">>, <<"=">>, t2 >> :
              t1 \in Toks(MaxTok - 1) \ {<<>>}, t2 \in Toks(MaxTok - 1) \ {<<>>}}

Parsing(op, line) ==
    /\ files = <<>>
    /\ streams = <<>>
    /\ pc = "parse"
    /\ exc = "none"
    /\ minX = "uninit" /\ maxX = "uninit" /\ minY = "uninit" /\ maxY = "uninit"
    /\ x = "uninit" /\ y = "uninit" /\ width = "uninit" /\ height = "uninit"
    /\ gameBoard = <<>>
    /\ boardSize = "uninit"
    /\ classNum = Unclassified
    /\ genNum = 0
    /\ currentX = "uninit" /\ currentY = "uninit" /\ posInfo = "uninit"
    /\ hdrSeen = <<>>
    /\ fillSeen = <<>>
    /\ call = [op |-> op, line |-> line]
    /\ out = <<>>

InitHdr ==
    \/ \E line \in FirstLines : Parsing("firstLine", line)
    \/ \E line \in SecLines : Parsing("secLine", line)

ParseDone(op, res) ==
    /\ call' = [op |-> op, line |-> call.line, res |-> res]
    /\ pc' = IF res.ok THEN "parsed" ELSE "aborted"
    /\ exc' = IF res.ok THEN exc ELSE res.err
    /\ UNCHANGED <<files, streams, minX, maxX, minY, maxY, x, y, width, height,
                   gameBoard, boardSize, classNum, genNum, currentX, currentY,
                   posInfo, hdrSeen, fillSeen, out>>

ReadPos ==
    /\ pc = "parse" /\ call.op = "firstLine"
    /\ ParseDone("readPos", readPos(call.line))

ReadWidthHeight ==
    /\ pc = "parse" /\ call.op = "secLine"
    /\ ParseDone("readWidthHeight", readWidthHeight(call.line))

NextHdr ==
    \/ ReadPos
    \/ ReadWidthHeight

SpecHdr == InitHdr /\ [][NextHdr]_vars

(***************************************************************************)
(* Properties.                                                              *)
(***************************************************************************)
\* the header pass has run over every stream
EnvelopeKnown == pc \in {"alloc", "fillhdr", "fillbody", "ready"}

\* C1: once calcBoardSpecs has run, every generation's frame (its declared
\* position and size) lies inside the envelope (x, y, width, height).
C1_EnvelopeContainsFrames ==
    EnvelopeKnown =>
        \A g \in 1..NumStreams :
            /\ x <= files[g].px
            /\ y <= files[g].py
            /\ files[g].px + files[g].w <= x + width
            /\ files[g].py + files[g].h <= y + height

\* C1's case: the second generation lies left of the first and reaches
\* further down, so both the minimum and a maximum move after the seed
C1_Witness ==
    /\ pc = "alloc"
    /\ files[2].px < files[1].px
    /\ files[2].py + files[2].h > files[1].py + files[1].h
    /\ x = files[2].px
    /\ y + height = files[2].py + files[2].h

\* the coordinate space of the board
ValidTriple(gen, xCoord, yCoord) ==
    /\ gen >= 0 /\ gen < NumStreams
    /\ xCoord >= x /\ xCoord < x + width
    /\ yCoord >= y /\ yCoord < y + height

ValidTriples ==
    {t \in (0..(NumStreams - 1)) \X (x..(x + width - 1)) \X (y..(y + height - 1)) : TRUE}

\* the affine formula of the data model
FlatOffset(gen, xCoord, yCoord) ==
    gen * width * height + (yCoord - y) * width + (xCoord - x)

C2_Index ==
    pc \in {"board", "set", "got"} =>
        /\ \A t \in ValidTriples :
              /\ get1DIndex(t[1], t[2], t[3]) = FlatOffset(t[1], t[2], t[3])
              /\ get1DIndex(t[1], t[2], t[3]) >= 0
              /\ get1DIndex(t[1], t[2], t[3]) < boardSize
        /\ Cardinality({get1DIndex(t[1], t[2], t[3]) : t \in ValidTriples})
              = Cardinality(ValidTriples)

C2_SetThenGet ==
    /\ (pc = "board" /\ call'.op = "setCellVal"
            /\ ValidTriple(call'.gen, call'.x, call'.y))
        => /\ call'.outcome = "done"
           /\ gameBoard'[FlatOffset(call'.gen, call'.x, call'.y) + 1] = call'.val
           /\ \A t \in ValidTriples :
                 t # <<call'.gen, call'.x, call'.y>> =>
                    gameBoard'[FlatOffset(t[1], t[2], t[3]) + 1]
                        = gameBoard[FlatOffset(t[1], t[2], t[3]) + 1]
    /\ (pc = "set" /\ call'.op = "getCellVal"
            /\ ValidTriple(call.gen, call.x, call.y)
            /\ <<call'.gen, call'.x, call'.y>> = <<call.gen, call.x, call.y>>)
        => /\ call'.outcome = "done"
           /\ call'.result = call.val

\* C2: over the valid coordinate space get1DIndex is the affine formula, its
\* value lies in [0, boardSize) and it is injective; a setCellVal of a valid
\* cell stores the value there and changes no other valid cell, and the
\* getCellVal of that cell that follows returns the value.
C2_IndexRoundTrip == [](C2_Index) /\ [][C2_SetThenGet]_vars

\* C2's case: in a 2-D envelope off the origin, one cell of the last
\* generation was set alive in a board of dead cells, and the read of that
\* cell returned true
C2_Witness ==
    /\ pc = "got"
    /\ call.op = "getCellVal"
    /\ call.gen = NumStreams - 1 /\ call.x = x + width - 1 /\ call.y = y + height - 1
    /\ width > 1 /\ height > 1 /\ x # 0 /\ y # 0
    /\ call.result = TRUE
    /\ {k \in 1..Len(gameBoard) : gameBoard[k]} = {call.idx + 1}

C3_OutOfRangeStep ==
    (pc \in {"board", "set"} /\ call'.op \in {"getCellVal", "setCellVal"}
        /\ call' # call /\ ~ValidTriple(call'.gen, call'.x, call'.y))
    => /\ call'.outcome = "IndexOutOfRange"
       /\ gameBoard' = gameBoard

\* C3: getCellVal and setCellVal with a coordinate outside the envelope, or a
\* generation outside [0, generationCount), end in IndexOutOfRange and leave
\* the board as it was.
C3_OutOfRangeIsError == [][C3_OutOfRangeStep]_vars

(***************************************************************************)
(* The run-length format as the specification reads it: a count is all the  *)
(* digits before a tag, `o` writes and advances, `b` advances, `$` starts   *)
(* count rows further down at the start column, `!` ends the pattern.       *)
(***************************************************************************)
RefStep(st, c, startX) ==
    IF st.done THEN st
    ELSE IF isdigit(c)
    THEN [st EXCEPT !.n = 10 * st.n + DigitVal(c), !.has = TRUE]
    ELSE LET cnt == IF st.has THEN st.n ELSE 1
             nx  == [st EXCEPT !.n = 0, !.has = FALSE]
         IN  IF c = "o"
             THEN [nx EXCEPT !.cells = st.cells \cup
                                 {<<st.cx + j, st.cy>> : j \in 0..(cnt - 1)},
                             !.cx = st.cx + cnt]
             ELSE IF c = "b" THEN [nx EXCEPT !.cx = st.cx + cnt]
             ELSE IF c = "$" THEN [nx EXCEPT !.cx = startX, !.cy = st.cy + cnt]
             ELSE IF c = "!" THEN [nx EXCEPT !.done = TRUE]
             ELSE nx

RECURSIVE RefRun(_, _, _, _)
RefRun(body, k, st, startX) ==
    IF k > Len(body) THEN st
    ELSE RefRun(body, k + 1, RefStep(st, body[k], startX), startX)

RefDecode(body, startX, startY) ==
    RefRun(body, 1, [cx |-> startX, cy |-> startY, cells |-> {}, n |-> 0,
                     has |-> FALSE, done |-> FALSE], startX)

\* the live cells of generation gen's slice, in board coordinates
EnvelopeCells == (x..(x + width - 1)) \X (y..(y + height - 1))

LiveCells(gen) ==
    {c \in EnvelopeCells : gameBoard[FlatOffset(gen, c[1], c[2]) + 1]}

FrameCells(f) == (f.px..(f.px + f.w - 1)) \X (f.py..(f.py + f.h - 1))

\* a body that ends with its only `!` and stays inside its declared frame
WellFormedBody(f) ==
    /\ Len(f.body) >= 1
    /\ f.body[Len(f.body)] = "!"
    /\ \A k \in 1..(Len(f.body) - 1) : f.body[k] # "!"
    /\ RefDecode(f.body, f.px, f.py).cells \subseteq FrameCells(f)

\* C4: after fillBoard, for every generation the live cells of its slice are
\* the cells the run-length format gives for its body, starting at its
\* declared position (checked for inputs whose every body is well formed).
C4_FillMatchesFormat ==
    (pc = "ready" /\ \A g \in 1..NumStreams : WellFormedBody(files[g]))
    => \A g \in 1..NumStreams :
           LiveCells(g - 1) = RefDecode(files[g].body, files[g].px, files[g].py).cells

\* the part of stream genNum's body that fillBoard has read
Consumed ==
    LET g == genNum + 1
    IN  SubSeq(files[g].body, 1, streams[g].pos - Len(files[g].lines))

MultiDigitRunRead(p) ==
    /\ Len(p) >= 3
    /\ p[Len(p)] \in {"o", "b", "$"}
    /\ isdigit(p[Len(p) - 1]) /\ isdigit(p[Len(p) - 2])
    /\ \A k \in 1..Len(p) : p[k] # "!"

\* C5: right after a run whose count has two or more digits has been read,
\* the cursor and the generation's live cells are what the full count gives.
C5_MultiDigitCount ==
    (pc = "fillbody" /\ MultiDigitRunRead(Consumed))
    => LET r == RefDecode(Consumed, posInfo.first, posInfo.second)
       IN  /\ currentX = r.cx
           /\ currentY = r.cy
           /\ LiveCells(genNum) = r.cells \cap EnvelopeCells

BangRead == \E k \in 1..Len(Consumed) : Consumed[k] = "!"

C6_Step == (pc = "fillbody" /\ BangRead) => gameBoard' = gameBoard

\* C6: once `!` has been read from a generation's stream, no later byte of
\* that stream changes the board.
C6_NothingAfterBang == [][C6_Step]_vars

(***************************************************************************)
(* Well-formed header lines, as the input format states them.               *)
(***************************************************************************)
Numeric(str) ==
    LET ds == IF Len(str) >= 1 /\ str[1] = "-" THEN Tail(str) ELSE str
    IN  Len(ds) >= 1 /\ \A k \in 1..Len(ds) : isdigit(ds[k])

PosQualifiers == {<<"P", "o", "s", "=">>, <<"p", "o", "s", "=">>}

WellFormedPosToken(t) ==
    /\ Len(t) > 4
    /\ SubSeq(t, 1, 4) \in PosQualifiers
    /\ LET r == SubSeq(t, 5, Len(t))
       IN  /\ Cardinality({k \in 1..Len(r) : r[k] = ","}) = 1
           /\ LET k == CHOOSE k \in 1..Len(r) : r[k] = ","
              IN  Numeric(SubSeq(r, 1, k - 1)) /\ Numeric(SubSeq(r, k + 1, Len(r)))

WellFormedFirstLine(line) == \E k \in 1..Len(line) : WellFormedPosToken(line[k])

WellFormedDimToken(t) ==
    Len(t) >= 2 /\ t[Len(t)] = "," /\ Numeric(SubSeq(t, 1, Len(t) - 1))

WellFormedSecLine(line) ==
    /\ Len(line) >= 6
    /\ line[1] = <<"x">> /\ line[2] = <<"=">> /\ WellFormedDimToken(line[3])
    /\ line[4] = <<"y">> /\ line[5] = <<"=">> /\ WellFormedDimToken(line[6])

\* C7: readPos and readWidthHeight never return a pair of integers for a
\* line that lacks its well-formed tokens; they end in an error.
C7_MalformedHeaderFails ==
    /\ (call.op = "readPos" /\ ~WellFormedFirstLine(call.line)) => ~call.res.ok
    /\ (call.op = "readWidthHeight" /\ ~WellFormedSecLine(call.line)) => ~call.res.ok

Available == Cardinality({g \in 1..NumStreams : files[g].exists})
Requested == NumStreams - 1
Extinct == 1

\* C9: with fewer generation files than requested generations, construction
\* completes and classification() returns Extinct.
C9_ExtinctWhenFilesMissing ==
    Available < Requested
    => /\ pc \notin {"aborted", "crashed"}
       /\ call.op = "classification" => call.result = Extinct

RECURSIVE ExpectedRows(_, _, _, _)
ExpectedRows(gen, row, onChar, offChar) ==
    IF row >= height THEN <<>>
    ELSE [c \in 1..width |->
             IF gameBoard[gen * width * height + row * width + c]
             THEN onChar ELSE offChar]
         \o <<"\n">>
         \o ExpectedRows(gen, row + 1, onChar, offChar)

\* C10: printGameBoard writes height rows of width characters, each row
\* followed by a newline, and then one more newline.
C10_PrintRows ==
    call.op = "printGameBoard"
    => out = ExpectedRows(call.gen, 0, call.onChar, call.offChar) \o <<"\n">>

(***************************************************************************)
(* The end of a body: a stream that runs out before `!`.                    *)
(***************************************************************************)
HasBang(body) == \E k \in 1..Len(body) : body[k] = "!"

\* C11: fillBoard finishes a generation normally (closes its stream and moves
\* on) only if a `!` was read from that generation's body; a body that runs
\* out before `!` ends construction in an error instead.
C11_StreamExhaustedFails ==
    pc \in {"fillhdr", "fillbody", "ready"}
    => \A g \in 1..genNum : HasBang(files[g].body)

(***************************************************************************)
(* Where fillBoard writes.                                                  *)
(***************************************************************************)
\* every body, read as the run-length format states it, stays in its frame
BodiesInFrames ==
    \A g \in 1..NumStreams :
        RefDecode(files[g].body, files[g].px, files[g].py).cells
            \subseteq FrameCells(files[g])

InSlice(gen, idx) ==
    idx >= gen * width * height /\ idx < (gen + 1) * width * height

\* C12: when every body stays inside its declared frame, every store that
\* fillBoard makes while decoding generation g is at a flat index inside
\* generation g's slice of the board.
C12_FillWritesConfined ==
    (call.op = "run" /\ BodiesInFrames)
    => \A k \in 1..Len(call.cells) : InSlice(call.gen, call.cells[k].idx)

\* the same for bodies in which nothing follows `!`
NothingAfterBang(body) ==
    \A k \in 1..Len(body) : body[k] = "!" => k = Len(body)

ConfinedWhenTerminated ==
    (call.op = "run" /\ BodiesInFrames
        /\ \A g \in 1..NumStreams : NothingAfterBang(files[g].body))
    => \A k \in 1..Len(call.cells) : InSlice(call.gen, call.cells[k].idx)

====
